---------------------------- MODULE Spec2Model ----------------------------
(***************************************************************************)
(* A model of pymc_experimental/distributions/continuous.py: the           *)
(* Generalized Extreme Value, Chi, Maxwell and Generalized Normal          *)
(* distributions.                                                          *)
(*                                                                         *)
(* Numbers are extended rationals (exact finite fractions, +inf, -inf and  *)
(* nan with the IEEE rules for division by zero and comparisons), arrays   *)
(* are a shape and a row of elements, and a transcendental expression      *)
(* (log, exp, pow, gammaln, ...) is kept as a term naming the expression   *)
(* and its operands.  A session constructs one distribution and then       *)
(* evaluates it (logp, logcdf, moment) or samples from it.                 *)
(*                                                                         *)
(* The value and mu are scalars; sigma, xi and Maxwell's a are scalars or  *)
(* vectors.  Rounding and the sign of zero are not modelled.  The library  *)
(* calls (check_parameters, CheckParameterValue, pt.isclose, the scipy     *)
(* generators, ChiSquared, CustomDist) are modelled by their documented    *)
(* behaviour; the generators are kept as the call made, with its           *)
(* arguments.                                                              *)
(***************************************************************************)
EXTENDS Integers, Sequences, FiniteSets, TLC

VARIABLES
    op,     \* the operation that produced the current state
    ctor,   \* the arguments the caller gave the constructor
    dist,   \* what the constructor returned
    arg,    \* the arguments of the last evaluation or sampling call
    out     \* what the last evaluation or sampling call returned

vars == <<op, ctor, dist, arg, out>>

---------------------------------------------------------------------------
(* Bounds of the model *)

MaxLen == 2
MaxSigma == 2
MaxVal == 2
MaxSeed == 2

---------------------------------------------------------------------------
(* Extended rational numbers *)

Abs(n) == IF n < 0 THEN -n ELSE n

Sgn(n) == IF n < 0 THEN -1 ELSE IF n > 0 THEN 1 ELSE 0

RECURSIVE GCD(_, _)
GCD(a, b) == IF b = 0 THEN a ELSE GCD(b, a % b)

\* the fraction n/d (d # 0) in lowest terms with a positive denominator
R(n, d) ==
    LET g == GCD(Abs(n), Abs(d))
    IN  [k |-> "fin", n |-> Sgn(d) * (n \div g), d |-> Abs(d) \div g]

PInf == [k |-> "pinf", n |-> 0, d |-> 1]
NInf == [k |-> "ninf", n |-> 0, d |-> 1]
NaN == [k |-> "nan", n |-> 0, d |-> 1]
Zero == R(0, 1)
One == R(1, 1)

IsFin(a) == a.k = "fin"

\* -1, 0, 1 for a negative, zero, positive number (nan excluded by the callers)
Sign(a) == IF a.k = "pinf" THEN 1 ELSE IF a.k = "ninf" THEN -1 ELSE Sgn(a.n)

Inf(s) == IF s > 0 THEN PInf ELSE NInf

Neg(a) ==
    CASE a.k = "fin" -> R(-a.n, a.d)
      [] a.k = "pinf" -> NInf
      [] a.k = "ninf" -> PInf
      [] OTHER -> NaN

Add(a, b) ==
    CASE a.k = "nan" \/ b.k = "nan" -> NaN
      [] IsFin(a) /\ IsFin(b) -> R(a.n * b.d + b.n * a.d, a.d * b.d)
      [] IsFin(a) -> b
      [] IsFin(b) -> a
      [] OTHER -> IF a.k = b.k THEN a ELSE NaN

Sub(a, b) == Add(a, Neg(b))

Mul(a, b) ==
    CASE a.k = "nan" \/ b.k = "nan" -> NaN
      [] IsFin(a) /\ IsFin(b) ->
            LET g1 == GCD(Abs(a.n), b.d)
                g2 == GCD(Abs(b.n), a.d)
            IN  R((a.n \div g1) * (b.n \div g2), (a.d \div g2) * (b.d \div g1))
      [] OTHER -> IF Sign(a) = 0 \/ Sign(b) = 0 THEN NaN ELSE Inf(Sign(a) * Sign(b))

Div(a, b) ==
    CASE a.k = "nan" \/ b.k = "nan" -> NaN
      [] IsFin(a) /\ IsFin(b) ->
            IF b.n = 0
            THEN IF a.n = 0 THEN NaN ELSE Inf(Sgn(a.n))
            ELSE Mul(a, R(b.d, b.n))
      [] IsFin(b) -> Inf(Sign(a) * (IF Sgn(b.n) < 0 THEN -1 ELSE 1))
      [] IsFin(a) -> Zero
      [] OTHER -> NaN

\* a > b; false whenever an operand is nan
Gt(a, b) ==
    CASE a.k = "nan" \/ b.k = "nan" -> FALSE
      [] IsFin(a) /\ IsFin(b) -> a.n * b.d > b.n * a.d
      [] a.k = b.k -> FALSE
      [] OTHER -> a.k = "pinf" \/ b.k = "ninf"

Lt(a, b) == Gt(b, a)

\* a <= b; false whenever an operand is nan
Le(a, b) == a.k # "nan" /\ b.k # "nan" /\ ~Gt(a, b)

AbsNum(a) == IF a.k = "nan" THEN NaN ELSE IF Sign(a) < 0 THEN Neg(a) ELSE a

---------------------------------------------------------------------------
(* Arrays: a shape (<<>> for a scalar, <<n>> for a vector) and its elements *)

Scalar(v) == [shape |-> <<>>, data |-> <<v>>]

Vector(row) == [shape |-> <<Len(row)>>, data |-> row]

Size(a) == Len(a.data)

\* element i of a, a scalar or a one-element vector being broadcast
At(a, i) == IF Size(a) = 1 THEN a.data[1] ELSE a.data[i]

Map1(F(_), a) == [shape |-> a.shape, data |-> [i \in 1..Size(a) |-> F(a.data[i])]]

\* pt.all: every element of a boolean array
All(b) == \A i \in 1..Size(b) : b.data[i]

Max2(m, n) == IF m > n THEN m ELSE n

\* the length and shape of the broadcast of two arrays
BroadcastShape(s, t) == IF Len(s) = 0 THEN t ELSE IF Len(t) = 0 THEN s
                        ELSE <<Max2(s[1], t[1])>>

Broadcastable(s, t) == IF Len(s) = 0 THEN TRUE ELSE IF Len(t) = 0 THEN TRUE
                       ELSE s[1] = t[1] \/ s[1] = 1 \/ t[1] = 1

ShapeLen(s) == IF Len(s) = 0 THEN 1 ELSE s[1]

\* a caller's Python value: a number n/d, or a list (array) of numbers
PyNum(n, d) == [list |-> FALSE, items |-> << <<n, d>> >>]

PyList(row) == [list |-> TRUE, items |-> row]

\* Python's unary minus on a number or a numpy array
PyNeg(v) == [list |-> v.list,
             items |-> [i \in 1..Len(v.items) |-> <<-(v.items[i][1]), v.items[i][2]>>]]

\* pt.as_tensor_variable(floatX(v)): a float tensor of the same shape
floatX(v) ==
    [shape |-> IF v.list THEN <<Len(v.items)>> ELSE <<>>,
     data |-> [i \in 1..Len(v.items) |-> R(v.items[i][1], v.items[i][2])]]

---------------------------------------------------------------------------
(* The constraint checker and the other library primitives the module uses *)

AtolDen == 100000000

\* pt.isclose(a, 0) with the default tolerances: |a| <= atol + rtol * 0 = 1e-8
isclose0(a) == IsFin(a) /\ Abs(a.n) * AtolDen <= a.d

\* CheckParameterValue(msg)(expr, cond): expr itself when cond holds, the
\* domain violation msg otherwise
CheckParameterValue(msg, expr, cond) ==
    IF cond
    THEN [tag |-> "value", check |-> msg, value |-> expr]
    ELSE [tag |-> "violation", check |-> msg, value |-> Scalar(NaN)]

\* check_parameters(expr, *conditions, msg): the conditions are boolean
\* arrays; all elements of all of them must hold
check_parameters(expr, conditions, msg) ==
    CheckParameterValue(msg, expr, \A c \in 1..Len(conditions) : All(conditions[c]))

\* a result that went through no checker
Unchecked(expr) == [tag |-> "value", check |-> "none", value |-> expr]

\* rv_size_is_none(size)
rv_size_is_none(size) == ~size.given

SizeNone == [given |-> FALSE, shape |-> <<>>]

SizeOf(s) == [given |-> TRUE, shape |-> s]

---------------------------------------------------------------------------
(* GenExtremeRV and GenExtreme *)

\* an expression of the GEV formulas, by name and operands
Term(form, mu, sigma, xi, z) == [form |-> form, mu |-> mu, sigma |-> sigma, xi |-> xi, z |-> z]

\* the constant -np.inf
NegInfTerm == Term("-inf", Zero, Zero, Zero, Zero)

\* the expressions of logp, logcdf and moment, in the branch where xi is
\* close to 0 and in the other
LogpGumbel == "-log(sigma) - scaled - exp(-scaled)"
LogpGev == "-log(sigma) - ((xi+1)/xi)*log1p(xi*scaled) - pow(1+xi*scaled, -1/xi)"
LogcGumbel == "-exp(-scaled)"
LogcGev == "-pow(1+xi*scaled, -1/xi)"
ModeGumbel == "mu"
ModeGev == "mu + sigma*(pow(1+xi, -xi) - 1)/xi"

\* stats.genextreme.rvs(c, loc, scale, random_state, size): the call made
genextreme_rvs(c, loc, scale, rng, size) ==
    [gen |-> "genextreme", shape |-> c, loc |-> loc, scale |-> scale,
     random_state |-> rng, size |-> size]

\* rng_fn passing the stored xi on without the negation
GenExtremeRV_rng_fn_NoNeg(rng, mu, sigma, xi, size) ==
    genextreme_rvs(xi, mu, sigma, rng, size)

GenExtremeRV_rng_fn(rng, mu, sigma, xi, size) ==
    genextreme_rvs(Map1(Neg, xi), mu, sigma, rng, size)

\* dist refusing a sigma <= 0 when the distribution is built
GenExtreme_dist_Validating(mu, sigma, xi, scipy) ==
    LET xi1 == IF scipy THEN PyNeg(xi) ELSE xi
    IN  IF \E i \in 1..Len(sigma.items) : sigma.items[i][1] <= 0
        THEN [tag |-> "violation", variant |-> "GenExtreme",
              params |-> <<floatX(mu), floatX(sigma), floatX(xi1)>>]
        ELSE [tag |-> "rv", variant |-> "GenExtreme",
              params |-> <<floatX(mu), floatX(sigma), floatX(xi1)>>]

GenExtreme_dist(mu, sigma, xi, scipy) ==
    LET xi1 == IF scipy THEN PyNeg(xi) ELSE xi
    IN  [tag |-> "rv", variant |-> "GenExtreme",
         params |-> <<floatX(mu), floatX(sigma), floatX(xi1)>>]

\* the broadcast length of a value and three parameters
BLen(value, p1, p2, p3) == Max2(Max2(Size(value), Size(p1)), Max2(Size(p2), Size(p3)))

BShape(value, p1, p2, p3) == IF BLen(value, p1, p2, p3) = 1
                                /\ value.shape = <<>> /\ p1.shape = <<>>
                                /\ p2.shape = <<>> /\ p3.shape = <<>>
                             THEN <<>> ELSE <<BLen(value, p1, p2, p3)>>

\* GenExtreme_logp_elem with the support test made only where xi is not close to 0
GenExtreme_logp_elem_BranchOnly(value, mu, sigma, xi) ==
    LET scaled == Div(Sub(value, mu), sigma)
    IN  IF isclose0(xi)
        THEN Term(LogpGumbel, Zero, sigma, Zero, scaled)
        ELSE IF Gt(Add(One, Mul(xi, scaled)), Zero)
             THEN Term(LogpGev, Zero, sigma, xi, scaled)
             ELSE NegInfTerm

\* one element of logp: the switch over isclose(xi, 0) and the support test
GenExtreme_logp_elem(value, mu, sigma, xi) ==
    LET scaled == Div(Sub(value, mu), sigma)
        logp_expression == IF isclose0(xi)
                           THEN Term(LogpGumbel, Zero, sigma, Zero, scaled)
                           ELSE Term(LogpGev, Zero, sigma, xi, scaled)
    IN  IF Gt(Add(One, Mul(xi, scaled)), Zero) THEN logp_expression ELSE NegInfTerm

\* GenExtremeConditions with xi <= 1 in place of xi < 1
GenExtremeConditions_XiLe(sigma, xi) ==
    << Map1(LAMBDA s : Gt(s, Zero), sigma),
       Map1(LAMBDA x : Gt(x, Neg(One)) /\ Le(x, One), xi) >>

\* the two parameter predicates of GenExtreme, as boolean arrays
GenExtremeConditions(sigma, xi) ==
    << Map1(LAMBDA s : Gt(s, Zero), sigma),
       Map1(LAMBDA x : Gt(x, Neg(One)) /\ Lt(x, One), xi) >>

GenExtreme_logp(value, mu, sigma, xi) ==
    LET logp == [shape |-> BShape(value, mu, sigma, xi),
                 data |-> [i \in 1..BLen(value, mu, sigma, xi) |->
                    GenExtreme_logp_elem(At(value, i), At(mu, i), At(sigma, i), At(xi, i))]]
    IN  check_parameters(logp, GenExtremeConditions(sigma, xi), "sigma > 0 or -1 < xi < 1")

\* one element of logcdf: the switch over isclose(xi, 0) and the support test
GenExtreme_logcdf_elem(value, mu, sigma, xi) ==
    LET scaled == Div(Sub(value, mu), sigma)
        logc_expression == IF isclose0(xi)
                           THEN Term(LogcGumbel, Zero, Zero, Zero, scaled)
                           ELSE Term(LogcGev, Zero, Zero, xi, scaled)
    IN  IF Gt(Add(One, Div(Mul(xi, Sub(value, mu)), sigma)), Zero)
        THEN logc_expression ELSE NegInfTerm

GenExtreme_logcdf(value, mu, sigma, xi) ==
    LET logc == [shape |-> BShape(value, mu, sigma, xi),
                 data |-> [i \in 1..BLen(value, mu, sigma, xi) |->
                    GenExtreme_logcdf_elem(At(value, i), At(mu, i), At(sigma, i), At(xi, i))]]
    IN  check_parameters(logc, GenExtremeConditions(sigma, xi), "sigma > 0 or -1 < xi < 1")

\* pt.full(size, v): v repeated over the requested shape
full(size, v) == [shape |-> size.shape,
                  data |-> [i \in 1..ShapeLen(size.shape) |-> At(v, i)]]

GenExtreme_moment(size, mu, sigma, xi) ==
    LET n == Max2(Size(mu), Max2(Size(sigma), Size(xi)))
        mode == [shape |-> IF n = 1 /\ mu.shape = <<>> /\ sigma.shape = <<>> /\ xi.shape = <<>>
                           THEN <<>> ELSE <<n>>,
                 data |-> [i \in 1..n |->
                    IF isclose0(At(xi, i))
                    THEN Term(ModeGumbel, At(mu, i), Zero, Zero, Zero)
                    ELSE Term(ModeGev, At(mu, i), At(sigma, i), At(xi, i), Zero)]]
    IN  IF ~rv_size_is_none(size) THEN full(size, mode) ELSE mode

---------------------------------------------------------------------------
(* Chi and Maxwell *)

\* one element of a variate: scale * f(ChiSquared(nu) draw number idx of rng),
\* f the square root when sqrt holds
Variate(nu, rng, idx, sqrt, scale) ==
    [base |-> "ChiSquared", nu |-> nu, rng |-> rng, idx |-> idx, sqrt |-> sqrt, scale |-> scale]

\* ChiSquared.dist(nu=nu, size=size), drawn from rng: one draw per element,
\* in element order
ChiSquared_dist(nu, size, rng) ==
    [shape |-> size.shape,
     data |-> [i \in 1..ShapeLen(size.shape) |-> Variate(nu, rng, i, FALSE, One)]]

\* pt.math.sqrt, elementwise
sqrt(x) == Map1(LAMBDA v : [v EXCEPT !.sqrt = TRUE], x)

\* Chi.chi_dist(nu, size); rng is the random source the graph is drawn with
Chi_chi_dist(nu, size, rng) == sqrt(ChiSquared_dist(nu, size, rng))

\* CustomDist(name, nu, dist=..., class_name=..., **kwargs): the call made
CustomDist(name, params, distfn, class_name, kwargs) ==
    [tag |-> "rv", variant |-> class_name, name |-> name, params |-> params,
     dist |-> distfn, kwargs |-> kwargs]

\* kwargs.setdefault(key, value)
setdefault(kwargs, key, value) ==
    IF key \in DOMAIN kwargs THEN kwargs ELSE kwargs @@ (key :> value)

\* __new__ setting the default transform on observed variables too
Chi_new_Always(name, nu, kwargs) ==
    CustomDist(name, nu, "chi_dist", "Chi", setdefault(kwargs, "transform", "transforms.log"))

\* Chi.__new__(cls, name, nu, **kwargs)
Chi_new(name, nu, kwargs) ==
    LET kw == IF "observed" \notin DOMAIN kwargs
              THEN setdefault(kwargs, "transform", "transforms.log")
              ELSE kwargs
    IN  CustomDist(name, nu, "chi_dist", "Chi", kw)

\* Chi.dist(nu, **kwargs)
Chi_dist(nu, kwargs) == CustomDist("", nu, "chi_dist", "Chi", kwargs)

\* x * a, elementwise with broadcasting
mul(x, a) ==
    [shape |-> BroadcastShape(x.shape, a.shape),
     data |-> [i \in 1..Max2(Size(x), Size(a)) |->
                 [At(x, i) EXCEPT !.scale = Mul(@, At(a, i))]]]

\* maxwell_dist drawing a scalar when no size is given
Maxwell_maxwell_dist_NoShape(a, size, rng) ==
    LET a1 == CheckParameterValue("a > 0", a, All(Map1(LAMBDA v : Gt(v, Zero), a)))
        chi == Chi_chi_dist(3, size, rng)
    IN  IF a1.tag = "violation" THEN a1
        ELSE IF ~Broadcastable(chi.shape, a.shape)
        THEN [tag |-> "shape_mismatch", check |-> a1.check, value |-> Scalar(NaN)]
        ELSE [tag |-> "value", check |-> a1.check, value |-> mul(chi, a1.value)]

\* maxwell_dist accepting a as soon as one element is positive
Maxwell_maxwell_dist_Any(a, size, rng) ==
    LET size1 == IF rv_size_is_none(size) THEN SizeOf(a.shape) ELSE size
        a1 == CheckParameterValue("a > 0", a, \E i \in 1..Size(a) : Gt(a.data[i], Zero))
        chi == Chi_chi_dist(3, size1, rng)
    IN  IF a1.tag = "violation" THEN a1
        ELSE IF ~Broadcastable(chi.shape, a.shape)
        THEN [tag |-> "shape_mismatch", check |-> a1.check, value |-> Scalar(NaN)]
        ELSE [tag |-> "value", check |-> a1.check, value |-> mul(chi, a1.value)]

\* Maxwell.maxwell_dist(a, size); rng is the random source the graph is drawn with
Maxwell_maxwell_dist(a, size, rng) ==
    LET size1 == IF rv_size_is_none(size) THEN SizeOf(a.shape) ELSE size
        a1 == CheckParameterValue("a > 0", a, All(Map1(LAMBDA v : Gt(v, Zero), a)))
        chi == Chi_chi_dist(3, size1, rng)
    IN  IF a1.tag = "violation" THEN a1
        ELSE IF ~Broadcastable(chi.shape, a.shape)
        THEN [tag |-> "shape_mismatch", check |-> a1.check, value |-> Scalar(NaN)]
        ELSE [tag |-> "value", check |-> a1.check, value |-> mul(chi, a1.value)]

\* Maxwell.dist(a, **kwargs)
Maxwell_dist(a, kwargs) == CustomDist("", a, "maxwell_dist", "Maxwell", kwargs)

---------------------------------------------------------------------------
(* GeneralizedNormalRV and GeneralizedNormal *)

\* stats.gennorm.rvs(beta, loc, scale, size, random_state): the call made
gennorm_rvs(beta, loc, scale, size, rng) ==
    [gen |-> "gennorm", shape |-> beta, loc |-> loc, scale |-> scale,
     random_state |-> rng, size |-> size]

GeneralizedNormalRV_rng_fn(rng, loc, alpha, beta, size) ==
    gennorm_rvs(beta, loc, alpha, size, rng)

GeneralizedNormal_dist(mu, alpha, beta) ==
    [tag |-> "rv", variant |-> "GeneralizedNormal",
     params |-> <<floatX(mu), floatX(alpha), floatX(beta)>>]

\* an expression of the Generalized Normal formulas, by name and operands
GNTerm(form, alpha, beta, z, c) ==
    [form |-> form, alpha |-> alpha, beta |-> beta, z |-> z, c |-> c]

\* pt.sign
sign(a) == IF a.k = "nan" THEN NaN ELSE R(Sign(a), 1)

GeneralizedNormal_logp(value, mu, alpha, beta) ==
    LET lp == [shape |-> BShape(value, mu, alpha, beta),
               data |-> [i \in 1..BLen(value, mu, alpha, beta) |->
                  LET z == Div(Sub(At(value, i), At(mu, i)), At(alpha, i))
                  IN  GNTerm("log(0.5*beta) - log(alpha) - gammaln(1/beta) - pow(abs(z), beta)",
                             At(alpha, i), At(beta, i), z, Zero)]]
    IN  check_parameters(lp,
                         << Map1(LAMBDA v : Gt(v, Zero), alpha),
                            Map1(LAMBDA v : Gt(v, Zero), beta) >>,
                         "alpha > 0, beta > 0")

GeneralizedNormal_logcdf(value, mu, alpha, beta) ==
    LET cdf == [shape |-> BShape(value, mu, alpha, beta),
                data |-> [i \in 1..BLen(value, mu, alpha, beta) |->
                   LET z == AbsNum(Div(Sub(At(value, i), At(mu, i)), At(alpha, i)))
                       c == sign(Sub(At(value, i), At(mu, i)))
                   IN  GNTerm("log(0.5 + 0.5*c*gammainc(1/beta, pow(z, beta)))",
                              Zero, At(beta, i), z, c)]]
    IN  Unchecked(cdf)

---------------------------------------------------------------------------
(* The inputs the sessions draw from *)

None == [tag |-> "none"]

\* a value far outside the usual range: 1 + xi * z can reach 0 for an xi
\* that is close to 0 without being 0
Far == 4 * AtolDen

TinyDen == 2 * AtolDen

MuSet == {0, 1}

SigmaSet == (-1)..MaxSigma

XiSet == { <<-1, 1>>, <<-1, 2>>, <<-1, TinyDen>>, <<0, 1>>,
           <<1, TinyDen>>, <<1, 2>>, <<1, 1>> }

\* the elements of a vector parameter: a valid and an invalid sigma; a valid
\* xi, an xi close to 0 and an invalid xi
VecSigmaSet == {-1, 1}

VecXiSet == { <<-1, 2>>, <<1, TinyDen>>, <<1, 1>> }

ValSet == ((-MaxVal)..MaxVal) \cup {-Far, Far}

VecLens == 2..MaxLen

PyInts(S) == { PyNum(n, 1) : n \in S }

PyFracs(S) == { PyNum(q[1], q[2]) : q \in S }

PyIntLists(S) == UNION { { PyList([i \in 1..n |-> <<f[i], 1>>]) : f \in [1..n -> S] } : n \in VecLens }

PyFracLists(S) == UNION { { PyList(f) : f \in [1..n -> S] } : n \in VecLens }

\* (sigma, xi): two scalars, a vector sigma with a scalar xi, or a scalar
\* sigma with a vector xi
GevShapeParams ==
    (PyInts(SigmaSet) \X PyFracs(XiSet))
    \cup (PyIntLists(VecSigmaSet) \X PyFracs(XiSet))
    \cup (PyInts(SigmaSet) \X PyFracLists(VecXiSet))

Values == { Scalar(R(v, 1)) : v \in ValSet }

Shapes == {<<>>} \cup { <<n>> : n \in 1..MaxLen }

Sizes == {SizeNone} \cup { SizeOf(s) : s \in Shapes }

Seeds == 1..MaxSeed

AValues == PyInts(SigmaSet) \cup PyIntLists(0..MaxSigma) \cup PyIntLists(VecSigmaSet)

NuSet == 1..3

KwKeys == {"observed", "transform"}

KwFull == [observed : {"None", "data"},
           transform : {"None", "transforms.log", "transforms.interval"}]

\* every keyword set: each of observed and transform passed or not
KwSets == { [k \in K |-> kw[k]] : K \in SUBSET KwKeys, kw \in KwFull }

---------------------------------------------------------------------------
(* The sessions *)

Init ==
    /\ op = "start"
    /\ ctor = None
    /\ dist = None
    /\ arg = None
    /\ out = None

IsRV(variant) == dist.tag = "rv" /\ dist.variant = variant

NewGenExtreme ==
    /\ op = "start"
    /\ \E mu \in PyInts(MuSet), sx \in GevShapeParams, scipy \in BOOLEAN :
          /\ ctor' = [mu |-> mu, sigma |-> sx[1], xi |-> sx[2], scipy |-> scipy]
          /\ dist' = GenExtreme_dist(mu, sx[1], sx[2], scipy)
    /\ op' = "GenExtreme.dist"
    /\ UNCHANGED <<arg, out>>

GevLogp ==
    /\ IsRV("GenExtreme")
    /\ \E value \in Values :
          /\ arg' = [value |-> value]
          /\ out' = GenExtreme_logp(value, dist.params[1], dist.params[2], dist.params[3])
    /\ op' = "GenExtreme.logp"
    /\ UNCHANGED <<ctor, dist>>

GevLogcdf ==
    /\ IsRV("GenExtreme")
    /\ \E value \in Values :
          /\ arg' = [value |-> value]
          /\ out' = GenExtreme_logcdf(value, dist.params[1], dist.params[2], dist.params[3])
    /\ op' = "GenExtreme.logcdf"
    /\ UNCHANGED <<ctor, dist>>

\* the sizes a parameter triple can be sampled or filled to
SizeFits(size, params) ==
    \A i \in 1..3 : /\ Broadcastable(size.shape, params[i].shape)
                    /\ BroadcastShape(size.shape, params[i].shape) = size.shape

GevMoment ==
    /\ IsRV("GenExtreme")
    /\ \E size \in Sizes :
          /\ size.given => SizeFits(size, dist.params)
          /\ arg' = [size |-> size]
          /\ out' = GenExtreme_moment(size, dist.params[1], dist.params[2], dist.params[3])
    /\ op' = "GenExtreme.moment"
    /\ UNCHANGED <<ctor, dist>>

GevSample ==
    /\ IsRV("GenExtreme")
    /\ \E rng \in Seeds, size \in Sizes :
          /\ size.given
          /\ SizeFits(size, dist.params)
          /\ arg' = [rng |-> rng, size |-> size]
          /\ out' = GenExtremeRV_rng_fn(rng, dist.params[1], dist.params[2],
                                        dist.params[3], size)
    /\ op' = "GenExtremeRV.rng_fn"
    /\ UNCHANGED <<ctor, dist>>

NewGeneralizedNormal ==
    /\ op = "start"
    /\ \E mu \in PyInts(MuSet), alpha \in PyInts(SigmaSet), beta \in PyInts(SigmaSet) :
          /\ ctor' = [mu |-> mu, alpha |-> alpha, beta |-> beta]
          /\ dist' = GeneralizedNormal_dist(mu, alpha, beta)
    /\ op' = "GeneralizedNormal.dist"
    /\ UNCHANGED <<arg, out>>

GnLogp ==
    /\ IsRV("GeneralizedNormal")
    /\ \E value \in Values :
          /\ arg' = [value |-> value]
          /\ out' = GeneralizedNormal_logp(value, dist.params[1], dist.params[2],
                                           dist.params[3])
    /\ op' = "GeneralizedNormal.logp"
    /\ UNCHANGED <<ctor, dist>>

GnLogcdf ==
    /\ IsRV("GeneralizedNormal")
    /\ \E value \in Values :
          /\ arg' = [value |-> value]
          /\ out' = GeneralizedNormal_logcdf(value, dist.params[1], dist.params[2],
                                             dist.params[3])
    /\ op' = "GeneralizedNormal.logcdf"
    /\ UNCHANGED <<ctor, dist>>

GnSample ==
    /\ IsRV("GeneralizedNormal")
    /\ \E rng \in Seeds, size \in Sizes :
          /\ size.given
          /\ arg' = [rng |-> rng, size |-> size]
          /\ out' = GeneralizedNormalRV_rng_fn(rng, dist.params[1], dist.params[2],
                                               dist.params[3], size)
    /\ op' = "GeneralizedNormalRV.rng_fn"
    /\ UNCHANGED <<ctor, dist>>

NewChi ==
    /\ op = "start"
    /\ \E nu \in NuSet, kwargs \in KwSets :
          /\ ctor' = [name |-> "x", nu |-> nu, kwargs |-> kwargs]
          /\ dist' = Chi_new("x", nu, kwargs)
    /\ op' = "Chi.__new__"
    /\ UNCHANGED <<arg, out>>

ChiDist ==
    /\ op = "start"
    /\ \E nu \in NuSet, kwargs \in KwSets :
          /\ ctor' = [name |-> "", nu |-> nu, kwargs |-> kwargs]
          /\ dist' = Chi_dist(nu, kwargs)
    /\ op' = "Chi.dist"
    /\ UNCHANGED <<arg, out>>

ChiDraw ==
    /\ IsRV("Chi")
    /\ \E rng \in Seeds, size \in Sizes :
          /\ size.given
          /\ arg' = [rng |-> rng, size |-> size]
          /\ out' = Chi_chi_dist(dist.params, size, rng)
    /\ op' = "Chi.chi_dist"
    /\ UNCHANGED <<ctor, dist>>

NewMaxwell ==
    /\ op = "start"
    /\ \E a \in AValues, size \in Sizes :
          /\ ctor' = [a |-> a, size |-> size]
          /\ dist' = Maxwell_dist(floatX(a), [size |-> size])
    /\ op' = "Maxwell.dist"
    /\ UNCHANGED <<arg, out>>

MaxwellDraw ==
    /\ IsRV("Maxwell")
    /\ \E rng \in Seeds :
          /\ arg' = [rng |-> rng, size |-> dist.kwargs.size]
          /\ out' = Maxwell_maxwell_dist(dist.params, dist.kwargs.size, rng)
    /\ op' = "Maxwell.maxwell_dist"
    /\ UNCHANGED <<ctor, dist>>

Next ==
    \/ NewGenExtreme
    \/ GevLogp
    \/ GevLogcdf
    \/ GevMoment
    \/ GevSample
    \/ NewGeneralizedNormal
    \/ GnLogp
    \/ GnLogcdf
    \/ GnSample
    \/ NewChi
    \/ ChiDist
    \/ ChiDraw
    \/ NewMaxwell
    \/ MaxwellDraw

Spec == Init /\ [][Next]_vars

---------------------------------------------------------------------------
(* What the claims speak of, stated on the parameters themselves *)

GevOps == {"GenExtreme.logp", "GenExtreme.logcdf"}

GnOps == {"GeneralizedNormal.logp", "GeneralizedNormal.logcdf"}

\* sigma > 0 and -1 < xi < 1, for every element
GevValid(params) ==
    /\ \A i \in 1..Size(params[2]) : params[2].data[i].n > 0
    /\ \A i \in 1..Size(params[3]) :
          /\ -(params[3].data[i].d) < params[3].data[i].n
          /\ params[3].data[i].n < params[3].data[i].d

\* alpha > 0 and beta > 0, for every element
GnValid(params) ==
    /\ \A i \in 1..Size(params[2]) : params[2].data[i].n > 0
    /\ \A i \in 1..Size(params[3]) : params[3].data[i].n > 0

\* the number of elements of an evaluation's result
OutLen == BLen(arg.value, dist.params[1], dist.params[2], dist.params[3])

\* 1 + xi*(x - mu)/sigma <= 0 for a sigma > 0, i.e. sigma + xi*(x - mu) <= 0
OutsideSupport(x, mu, sigma, xi) == Le(Add(sigma, Mul(xi, Sub(x, mu))), Zero)

OutsideAt(i) == OutsideSupport(At(arg.value, i), At(dist.params[1], i),
                               At(dist.params[2], i), At(dist.params[3], i))

\* |xi| <= 1e-8
CloseToZero(xi) == xi.n * AtolDen <= xi.d /\ -(xi.n) * AtolDen <= xi.d

---------------------------------------------------------------------------
(* C1: every log-density and log-CDF evaluation of GenExtreme and of       *)
(* GeneralizedNormal returns a value wrapped by the check of its variant's *)
(* domain predicates: with parameters outside the domain the call yields   *)
(* the domain violation, never a value.                                    *)
C1_EveryEvaluationChecked ==
    /\ op \in GevOps =>
          /\ out.check # "none"
          /\ out.tag = "violation" <=> ~GevValid(dist.params)
    /\ op \in GnOps =>
          /\ out.check # "none"
          /\ out.tag = "violation" <=> ~GnValid(dist.params)

(* C2: GenExtreme.logp and GenExtreme.logcdf yield the domain violation    *)
(* exactly when some element has sigma <= 0 or xi <= -1 or xi >= 1; when   *)
(* every element satisfies both predicates the computed result is returned *)
(* unmodified.                                                             *)
C2_GevDomainViolation ==
    op \in GevOps =>
       /\ out.tag = "violation" <=> ~GevValid(dist.params)
       /\ out.tag \in {"violation", "value"}
       /\ out.tag = "value" =>
             /\ Size(out.value) = OutLen
             /\ \A i \in 1..OutLen :
                   out.value.data[i] =
                      IF op = "GenExtreme.logp"
                      THEN GenExtreme_logp_elem(At(arg.value, i), At(dist.params[1], i),
                                                At(dist.params[2], i), At(dist.params[3], i))
                      ELSE GenExtreme_logcdf_elem(At(arg.value, i), At(dist.params[1], i),
                                                  At(dist.params[2], i), At(dist.params[3], i))

\* a batch with a valid and an invalid sigma: the whole call is the violation
C2_Witness ==
    /\ op = "GenExtreme.logp"
    /\ \E i, j \in 1..Size(dist.params[2]) :
          dist.params[2].data[i].n > 0 /\ dist.params[2].data[j].n < 0
    /\ out.tag = "violation"

(* C3: for valid parameters, GenExtreme.logp and GenExtreme.logcdf return  *)
(* -infinity, as a normal result, for every value with                     *)
(* 1 + xi*(x - mu)/sigma <= 0, whether xi is close to 0 or not; for every  *)
(* other value the result is the expression of the branch selected.        *)
C3_GevSupport ==
    (op \in GevOps /\ GevValid(dist.params)) =>
       /\ out.tag = "value"
       /\ \A i \in 1..OutLen :
             LET t == out.value.data[i]
                 xi == At(dist.params[3], i)
                 z == Div(Sub(At(arg.value, i), At(dist.params[1], i)), At(dist.params[2], i))
             IN  IF OutsideAt(i)
                 THEN t = NegInfTerm
                 ELSE /\ t.z = z
                      /\ t.form = IF op = "GenExtreme.logp"
                                  THEN (IF CloseToZero(xi) THEN LogpGumbel ELSE LogpGev)
                                  ELSE (IF CloseToZero(xi) THEN LogcGumbel ELSE LogcGev)
                      /\ ~CloseToZero(xi) => t.xi = xi

\* an xi close to 0 without being 0, and a value outside the support
C3_Witness ==
    /\ op = "GenExtreme.logp"
    /\ GevValid(dist.params)
    /\ CloseToZero(dist.params[3].data[1])
    /\ dist.params[3].data[1].n # 0
    /\ OutsideAt(1)
    /\ out.tag = "value"
    /\ out.value.data[1] = NegInfTerm

\* the number n/d a caller passed is the float a
SameNumber(a, q) == IsFin(a) /\ a.n * q[2] = q[1] * a.d

\* the number n/d a caller passed is the float -a
NegatedNumber(a, q) == IsFin(a) /\ -(a.n) * q[2] = q[1] * a.d

\* the float array a holds the caller's value v, shape and numbers
SameArray(a, v) ==
    /\ a.shape = (IF v.list THEN <<Len(v.items)>> ELSE <<>>)
    /\ Size(a) = Len(v.items)
    /\ \A i \in 1..Len(v.items) : SameNumber(a.data[i], v.items[i])

NegatedArray(a, v) ==
    /\ a.shape = (IF v.list THEN <<Len(v.items)>> ELSE <<>>)
    /\ Size(a) = Len(v.items)
    /\ \A i \in 1..Len(v.items) : NegatedNumber(a.data[i], v.items[i])

GevSession == op \in {"GenExtreme.dist", "GenExtreme.logp", "GenExtreme.logcdf",
                      "GenExtreme.moment", "GenExtremeRV.rng_fn"}

GnSession == op \in {"GeneralizedNormal.dist", "GeneralizedNormal.logp",
                     "GeneralizedNormal.logcdf", "GeneralizedNormalRV.rng_fn"}

\* o is a domain violation
IsViolation(o) == IF "tag" \in DOMAIN o THEN o.tag = "violation" ELSE FALSE

(* C4: GenExtreme.dist and GeneralizedNormal.dist signal no domain         *)
(* violation whatever the parameter values: they return the distribution   *)
(* holding the coerced parameters; a domain violation appears only as the  *)
(* result of a later logp or logcdf evaluation.                            *)
C4_NoViolationAtConstruction ==
    /\ op = "GenExtreme.dist" =>
          /\ dist.tag = "rv"
          /\ SameArray(dist.params[1], ctor.mu)
          /\ SameArray(dist.params[2], ctor.sigma)
          /\ out = None
    /\ op = "GeneralizedNormal.dist" =>
          /\ dist.tag = "rv"
          /\ SameArray(dist.params[1], ctor.mu)
          /\ SameArray(dist.params[2], ctor.alpha)
          /\ SameArray(dist.params[3], ctor.beta)
          /\ out = None
    /\ (GevSession \/ GnSession) =>
          /\ dist.tag = "rv"
          /\ IsViolation(out) => op \in GevOps \cup GnOps

\* a distribution built with sigma <= 0, whose violation shows at logp
C4_Witness ==
    /\ op = "GenExtreme.logp"
    /\ dist.tag = "rv"
    /\ \E i \in 1..Len(ctor.sigma.items) : ctor.sigma.items[i][1] <= 0
    /\ out.tag = "violation"

\* the forms in which xi is an operand
XiForms == {LogpGev, LogcGev, ModeGev}

(* C5: GenExtreme.dist stores -c for xi = c under scipy=True and c under   *)
(* scipy=False; logp, logcdf and moment use the stored xi as it is; and    *)
(* GenExtremeRV.rng_fn calls the generator with the negated stored xi as   *)
(* shape parameter, mu and sigma unchanged: the shape parameter is c under *)
(* scipy=True and -c under scipy=False.                                    *)
C5_ScipyFlag ==
    GevSession =>
       /\ IF ctor.scipy THEN NegatedArray(dist.params[3], ctor.xi)
                        ELSE SameArray(dist.params[3], ctor.xi)
       /\ (op \in GevOps /\ out.tag = "value") =>
             \A i \in 1..Size(out.value) :
                out.value.data[i].form \in XiForms =>
                   out.value.data[i].xi = At(dist.params[3], i)
       /\ op = "GenExtreme.moment" =>
             \A i \in 1..Size(out) :
                out.data[i].form \in XiForms => out.data[i].xi = At(dist.params[3], i)
       /\ op = "GenExtremeRV.rng_fn" =>
             /\ out.gen = "genextreme"
             /\ IF ctor.scipy THEN SameArray(out.shape, ctor.xi)
                              ELSE NegatedArray(out.shape, ctor.xi)
             /\ SameArray(out.loc, ctor.mu)
             /\ SameArray(out.scale, ctor.sigma)
             /\ out.random_state = arg.rng
             /\ out.size = arg.size

\* a scipy-convention distribution with a non-zero xi, sampled
C5_Witness ==
    /\ op = "GenExtremeRV.rng_fn"
    /\ ctor.scipy
    /\ ctor.xi.items[1][1] > 0
    /\ out.shape.data[1].n > 0

\* the sample shape Maxwell resolves: the size given, else the shape of a
ResolvedShape == IF ctor.size.given THEN ctor.size.shape
                 ELSE (IF ctor.a.list THEN <<Len(ctor.a.items)>> ELSE <<>>)

AShape == IF ctor.a.list THEN <<Len(ctor.a.items)>> ELSE <<>>

AllPositive == \A i \in 1..Len(ctor.a.items) : ctor.a.items[i][1] > 0

(* C6: Maxwell.maxwell_dist resolves the sample shape as the size given,   *)
(* or as the shape of a when none is given, draws a Chi variate with       *)
(* nu = 3 of that shape and returns the draw multiplied elementwise by a;  *)
(* Chi.chi_dist is the square root of a ChiSquared(nu) variate of the      *)
(* requested size.                                                         *)
C6_MaxwellSampling ==
    /\ (op = "Maxwell.maxwell_dist" /\ AllPositive /\ Broadcastable(ResolvedShape, AShape)) =>
          /\ out.tag = "value"
          /\ out.value.shape = BroadcastShape(ResolvedShape, AShape)
          /\ Size(out.value) = Max2(ShapeLen(ResolvedShape), Len(ctor.a.items))
          /\ {out.value.data[i].idx : i \in 1..Size(out.value)} = 1..ShapeLen(ResolvedShape)
          /\ \A i \in 1..Size(out.value) :
                LET e == out.value.data[i]
                IN  /\ e.base = "ChiSquared"
                    /\ e.nu = 3
                    /\ e.sqrt
                    /\ e.rng = arg.rng
                    /\ e.idx = (IF ShapeLen(ResolvedShape) = 1 THEN 1 ELSE i)
                    /\ SameNumber(e.scale,
                                  ctor.a.items[IF Len(ctor.a.items) = 1 THEN 1 ELSE i])
    /\ op = "Chi.chi_dist" =>
          /\ out.shape = arg.size.shape
          /\ Size(out) = ShapeLen(arg.size.shape)
          /\ \A i \in 1..Size(out) :
                /\ out.data[i].base = "ChiSquared"
                /\ out.data[i].nu = ctor.nu
                /\ out.data[i].sqrt
                /\ out.data[i].rng = arg.rng
                /\ out.data[i].idx = i
                /\ out.data[i].scale = One

\* no size given and a vector a: one draw per element of a
C6_Witness ==
    /\ op = "Maxwell.maxwell_dist"
    /\ ~ctor.size.given
    /\ Len(ctor.a.items) > 1
    /\ out.tag = "value"
    /\ out.value.data[2].idx = 2

(* C7: Maxwell checks a > 0 before scaling: when some element of a is      *)
(* <= 0 the variate evaluates to the domain violation "a > 0" and no       *)
(* scaled draw is returned; when every element is > 0 the checked a is a   *)
(* itself.                                                                 *)
C7_MaxwellConstraint ==
    op = "Maxwell.maxwell_dist" =>
       /\ out.check = "a > 0"
       /\ ~AllPositive => out.tag = "violation" /\ out.value = Scalar(NaN)
       /\ AllPositive =>
             /\ out.tag # "violation"
             /\ out.tag = "value" =>
                   \A i \in 1..Size(out.value) :
                      SameNumber(out.value.data[i].scale,
                                 ctor.a.items[IF Len(ctor.a.items) = 1 THEN 1 ELSE i])

\* a vector a with a positive and a non-positive element
C7_Witness ==
    /\ op = "Maxwell.maxwell_dist"
    /\ \E i, j \in 1..Len(ctor.a.items) : ctor.a.items[i][1] > 0 /\ ctor.a.items[j][1] <= 0
    /\ out.tag = "violation"

TermLeq(t1, t2) ==
    IF t1 = NegInfTerm THEN TRUE
    ELSE IF t2 = NegInfTerm THEN FALSE
    ELSE IF t1.form = LogcGumbel THEN Le(t1.z, t2.z)
    ELSE IF Sign(t1.xi) > 0
         THEN Le(Add(One, Mul(t1.xi, t1.z)), Add(One, Mul(t2.xi, t2.z)))
         ELSE Le(Add(One, Mul(t2.xi, t2.z)), Add(One, Mul(t1.xi, t1.z)))

(* C10: for fixed valid parameters GenExtreme.logcdf is non-decreasing in  *)
(* the value: of two evaluations on the same distribution, the one at the  *)
(* larger value returns the larger or equal log-CDF.                       *)
C10_LogcdfMonotone ==
    [][ (/\ op = "GenExtreme.logcdf"
         /\ op' = "GenExtreme.logcdf"
         /\ GevValid(dist.params)
         /\ Le(arg.value.data[1], arg'.value.data[1]))
        => \A i \in 1..Size(out.value) :
              TermLeq(out.value.data[i], out'.value.data[i]) ]_vars

====
